---- MODULE Spec2Model ----
(***************************************************************************)
(* Model of cli/azd/pkg/project/service_target_aks.go: the AKS service     *)
(* target.  Two sequential flows of one azd process are modelled:          *)
(*   - the cluster-context bootstrap (setK8sContext), run by the           *)
(*     "postprovision" and "predeploy" handlers registered by Initialize;  *)
(*   - Deploy, with Endpoints and the waits it calls.                      *)
(* SpecEndpoints takes getServiceEndpoints and getIngressEndpoints on      *)
(* their own, SpecFlows two bootstrap-and-deploy flows that share one      *)
(* kubeconfig store.                                                       *)
(* Strings that the code builds or splits are sequences of tokens, "," is  *)
(* a token of its own.  Errors are chains of messages, outermost first.    *)
(***************************************************************************)
EXTENDS Integers, Sequences, FiniteSets, TLC

\* ---------------------------------------------------------------- bounds
\* how often each lifecycle event is raised in one behaviour
MaxFires == 1
\* kubeconfig blobs in one credential result
MaxKubeconfigs == 2
\* contexts in one parsed kubeconfig
MaxContexts == 1
\* progress events of the container helper's deploy task
MaxProgress == 1
\* entries of a list in a resource snapshot
MaxLen == 2
\* replicas of a Deployment
MaxReplicas == 1

\* ---------------------------------------------------------------- values
\* a nil string or pointer to a string
Nil == "nil"
\* a nil error
NoErr == <<>>
\* a nil pointer or slice, and one that holds v
None == <<>>
Some(v) == <<v>>

\* kubectl.ErrResourceNotFound
ErrResourceNotFound == "ErrResourceNotFound"

\* errors.Is(err, target): target occurs somewhere in the %w chain
ErrorsIs(err, target) == \E i \in 1..Len(err) : err[i] = target

\* fmt.Errorf("msg: %w", err)
Wrap(msg, err) == <<msg>> \o err

\* a Go string value as tokens: the empty string has none
Str(s) == IF s = "" THEN <<>> ELSE <<s>>

\* strings.Contains(s, substr)
StringsContains(s, substr) ==
    \E i \in 0..(Len(s) - Len(substr)) :
        \A j \in 1..Len(substr) : s[i + j] = substr[j]

\* index of the first "," of s, or 0
RECURSIVE FirstComma(_, _)
FirstComma(s, i) ==
    IF i > Len(s) THEN 0
    ELSE IF s[i] = "," THEN i
    ELSE FirstComma(s, i + 1)

\* strings.Split(s, ",")[0]
SplitFirst(s) ==
    IF FirstComma(s, 1) = 0 THEN s ELSE SubSeq(s, 1, FirstComma(s, 1) - 1)

\* sequences over S of length at most n
SeqUpTo(S, n) == UNION {[1..k -> S] : k \in 0..n}

\* ---------------------------------------------------------------- inputs
Events == {"postprovision", "predeploy"}

\* environment.AksClusterEnvVarName's value when it is set
ClusterName == "aks1"

\* ServiceConfig values: one that leaves every K8s option to its default,
\* and one that sets them all, with a relative path that holds a comma
ServiceConfigs ==
    { [Name |-> <<"w">>, ProjectName |-> "proj", Namespace |-> "",
       DeploymentPath |-> "", DeploymentName |-> <<>>, ServiceName |-> <<>>,
       IngressName |-> <<>>, IngressRelativePath |-> <<>>],
      [Name |-> <<"w">>, ProjectName |-> "proj", Namespace |-> "ns1",
       DeploymentPath |-> "k8s", DeploymentName |-> <<"d">>,
       ServiceName |-> <<"s">>, IngressName |-> <<"i">>,
       IngressRelativePath |-> <<"/", "app", ",", "v2">>] }

\* a kubeconfig blob of a credential result: idx is its position in the
\* list, valid whether it parses, ncontexts how many contexts it holds
Blobs(i) == {[idx |-> i, valid |-> v, ncontexts |-> n] :
                v \in BOOLEAN, n \in 0..MaxContexts}

\* armcontainerservice.CredentialResults.Kubeconfigs
CredentialLists ==
    UNION { {s \in [1..k -> UNION {Blobs(i) : i \in 1..k}] :
                \A i \in 1..k : s[i].idx = i} : k \in 0..MaxKubeconfigs }

VARIABLES
    serviceConfig,   \* the *ServiceConfig of the service
    kubeConfigEnv,   \* t.env.Getenv(KUBECONFIG): "" or a path
    hasClusterName,  \* t.env.LookupEnv(AZURE_AKS_CLUSTER_NAME) finds a value
    handlers,        \* events with a handler added by Initialize
    initResult,      \* Initialize: "none", "ok" or "err"
    fired,           \* event -> times raised
    runs,            \* setK8sContext invocations started
    bpc,             \* position inside setK8sContext
    bevent,          \* eventName of the running invocation
    bsteps,          \* calls made by the running (or last) invocation
    bresult,         \* last invocation: "none", "ok", "err", "panic"
    bfailedAt,       \* the call of that invocation that returned an error
    berr,            \* the error it returned
    clusterCreds,    \* clusterCreds.Kubeconfigs of the running invocation
    kubeConfig,      \* parsed kubeconfig of the running invocation, or None
    kubectlConfig,   \* path given to kubectl.SetKubeConfig, or ""
    store,           \* kubeconfig store: contexts, in order
    currentContext,  \* kubectl's current context, or ""
    namespaces,      \* namespaces that exist in the cluster
    consoleMsgs,     \* warnings written by console.Message
    prev             \* what the invocation before the running one left

bvars == <<serviceConfig, kubeConfigEnv, hasClusterName, handlers, initResult,
           fired, runs, bpc, bevent, bsteps, bresult, bfailedAt, berr,
           clusterCreds, kubeConfig, kubectlConfig, store, currentContext,
           namespaces, consoleMsgs, prev>>

VARIABLES
    dpc,             \* position inside Deploy's task function
    targetRG,        \* targetResource.ResourceGroupName() of the invocation
    packageOutput,   \* the packageOutput argument: Nil or a package
    pushState,       \* container helper's deploy task: none/running/ok/err
    pushEvents,      \* progress events that task has sent
    progress,        \* labels received by the deploy task's progress stream
    calls,           \* external calls made by Deploy, in order
    taskErr,         \* error set by task.SetError, or NoErr
    taskResult,      \* result set by task.SetResult, or None
    deployment,      \* deployment returned by waitForDeployment, or None
    waitErr,         \* error returned by waitForDeployment, or NoErr
    serviceEndpoints,\* endpoints returned by getServiceEndpoints
    serviceErr,      \* error returned by getServiceEndpoints, or NoErr
    ingressEndpoints,\* endpoints returned by getIngressEndpoints
    ingressErr,      \* error returned by getIngressEndpoints, or NoErr
    endpoints,       \* endpoints returned by Endpoints, or None
    endpointUrl,     \* env's ENDPOINT_URL service property, or None
    savedUrl         \* ENDPOINT_URL as last saved by envManager.Save, or None

\* the locals of waitForDeployment and Endpoints
evars == <<deployment, waitErr, serviceEndpoints, serviceErr,
           ingressEndpoints, ingressErr, endpoints>>

\* the arguments of getServiceEndpoints and getIngressEndpoints when they
\* are taken on their own
VARIABLES
    service,         \* the Service waitForService returned, or None
    ingress,         \* the Ingress waitForIngress returned, or None
    returned         \* what the function returned for it, or None

rvars == <<service, ingress, returned>>

dvars == <<dpc, targetRG, packageOutput, pushState, pushEvents, progress,
           calls, taskErr, taskResult, evars, rvars, endpointUrl, savedUrl>>

VARIABLES
    cpc,             \* flow -> index of its next step, 0 after an error
    cstore,          \* the kubeconfig store the concurrent flows share
    ccurrent,        \* its current context
    cused            \* flow -> calls made, with the current context of each

cvars == <<cpc, cstore, ccurrent, cused>>

vars == <<bvars, dvars, cvars>>

\* outcomes of a call that returns only an error
CallErrors(msg) == {NoErr, <<msg>>}

\* ------------------------------------------------------------ bootstrap
\* getK8sNamespace
getK8sNamespace(cfg) ==
    IF cfg.Namespace = "" THEN cfg.ProjectName ELSE cfg.Namespace

\* mutant: the KUBECONFIG override is not looked at
HasKubeConfigOverrideNever(path) == FALSE

\* ensureClusterContext: the KUBECONFIG override short-circuit
HasKubeConfigOverride(path) == path # ""

\* Go's err != nil
IsError(err) == err # NoErr

\* mutant: the last blob of the list is taken
SelectedKubeconfigLast(creds) == creds[Len(creds)]

\* the kubeconfig blob ensureClusterContext hands to configureK8sContext
SelectedKubeconfig(creds) == creds[1]

\* kubectl.ParseKubeConfig: a document that is not valid yaml is an error
ParseKubeConfig(blob) ==
    IF blob.valid
    THEN [err |-> NoErr,
          config |-> Some([src |-> blob.idx,
                      Contexts |-> [i \in 1..blob.ncontexts |-> [Namespace |-> ""]]])]
    ELSE [err |-> <<"yaml: invalid">>, config |-> None]

\* KubeConfigManager.AddOrUpdateContext: upsert keyed by the context name
AddOrUpdateContext(st, name, cfg) ==
    LET entry == [name |-> name, namespace |-> cfg.Contexts[1].Namespace,
                  src |-> cfg.src]
    IN IF \E i \in 1..Len(st) : st[i].name = name
       THEN [i \in 1..Len(st) |-> IF st[i].name = name THEN entry ELSE st[i]]
       ELSE Append(st, entry)

\* a setK8sContext invocation returns err, the error of call (or derived
\* from it) when it is one
BReturn(call, err) ==
    /\ bpc' = "idle"
    /\ bresult' = IF IsError(err) THEN "err" ELSE "ok"
    /\ bfailedAt' = IF IsError(err) THEN call ELSE ""
    /\ berr' = err
    /\ clusterCreds' = <<>>
    /\ kubeConfig' = None

\* a setK8sContext invocation panics (index out of range)
BPanic ==
    /\ bpc' = "idle"
    /\ bresult' = "panic"
    /\ bfailedAt' = ""
    /\ berr' = NoErr
    /\ clusterCreds' = <<>>
    /\ kubeConfig' = None

\* Initialize: add the postprovision and the predeploy handler
Initialize ==
    /\ initResult = "none"
    /\ \E err1 \in CallErrors("AddHandler"), err2 \in CallErrors("AddHandler") :
          IF IsError(err1)
          THEN /\ handlers' = {}
               /\ initResult' = "err"
          ELSE IF IsError(err2)
          THEN /\ handlers' = {"postprovision"}
               /\ initResult' = "err"
          ELSE /\ handlers' = {"postprovision", "predeploy"}
               /\ initResult' = "ok"
    /\ UNCHANGED <<prev, serviceConfig, kubeConfigEnv, hasClusterName, fired, runs,
                   bpc, bevent, bsteps, bresult, bfailedAt, berr, clusterCreds,
                   kubeConfig, kubectlConfig, store, currentContext,
                   namespaces, consoleMsgs>>
    /\ UNCHANGED <<dvars, cvars>>

\* mutant: only the predeploy handler runs setK8sContext
HandlerRunsOnPredeployOnly(e) == e \in handlers /\ e = "predeploy"

\* the handlers Initialize added run setK8sContext whenever their event is
\* raised
HandlerRuns(e) == e \in handlers

\* an event is raised and its handler enters setK8sContext: SetEnv, and
\* SetKubeConfig when KUBECONFIG is set
setK8sContext(e) ==
    /\ initResult = "ok"
    /\ bpc = "idle"
    /\ dpc = "idle"
    /\ fired[e] < MaxFires
    /\ fired' = [fired EXCEPT ![e] = @ + 1]
    /\ IF HandlerRuns(e)
       THEN /\ runs' = runs + 1
            /\ prev' = [result |-> bresult, store |-> store,
                        currentContext |-> currentContext]
            /\ bevent' = e
            /\ bpc' = "GetTargetResource"
            /\ bresult' = "none"
            /\ bfailedAt' = ""
            /\ berr' = NoErr
            /\ IF kubeConfigEnv # ""
               THEN /\ kubectlConfig' = kubeConfigEnv
                    /\ bsteps' = <<"SetEnv", "SetKubeConfig">>
               ELSE /\ kubectlConfig' = kubectlConfig
                    /\ bsteps' = <<"SetEnv">>
       ELSE UNCHANGED <<runs, prev, bevent, bpc, bresult, bfailedAt, berr,
                        kubectlConfig, bsteps>>
    /\ UNCHANGED <<serviceConfig, kubeConfigEnv, hasClusterName, handlers,
                   initResult, clusterCreds, kubeConfig, store,
                   currentContext, namespaces, consoleMsgs>>
    /\ UNCHANGED <<dvars, cvars>>

\* setK8sContext: resourceManager.GetTargetResource
GetTargetResource ==
    /\ bpc = "GetTargetResource"
    /\ bsteps' = Append(bsteps, "GetTargetResource")
    /\ \E err \in CallErrors("GetTargetResource") :
          IF IsError(err)
          THEN BReturn("GetTargetResource", err)
          ELSE /\ bpc' = "ensureClusterContext"
               /\ UNCHANGED <<bresult, bfailedAt, berr, clusterCreds, kubeConfig>>
    /\ UNCHANGED <<prev, serviceConfig, kubeConfigEnv, hasClusterName, handlers,
                   initResult, fired, runs, bevent, kubectlConfig, store,
                   currentContext, namespaces, consoleMsgs>>
    /\ UNCHANGED <<dvars, cvars>>

\* ensureClusterContext up to the credential fetch: the override returns at
\* once, a missing cluster name is an error
ensureClusterContext ==
    /\ bpc = "ensureClusterContext"
    /\ IF HasKubeConfigOverride(kubeConfigEnv)
       THEN /\ bpc' = "CreateNamespace"
            /\ UNCHANGED <<bresult, bfailedAt, berr, clusterCreds, kubeConfig>>
       ELSE IF ~hasClusterName
       THEN BReturn("LookupEnv", <<"could not determine AKS cluster">>)
       ELSE /\ bpc' = "GetUserCredentials"
            /\ UNCHANGED <<bresult, bfailedAt, berr, clusterCreds, kubeConfig>>
    /\ UNCHANGED <<prev, serviceConfig, kubeConfigEnv, hasClusterName, handlers,
                   initResult, fired, runs, bevent, bsteps, kubectlConfig,
                   store, currentContext, namespaces, consoleMsgs>>
    /\ UNCHANGED <<dvars, cvars>>

\* ensureClusterContext: managedClustersService.GetUserCredentials and the
\* check that the list is not empty
GetUserCredentials ==
    /\ bpc = "GetUserCredentials"
    /\ bsteps' = Append(bsteps, "GetUserCredentials")
    /\ \E err \in CallErrors("GetUserCredentials"), creds \in CredentialLists :
          IF IsError(err)
          THEN BReturn("GetUserCredentials",
                       Wrap("failed retrieving cluster admin credentials", err))
          ELSE IF Len(creds) = 0
          THEN BReturn("GetUserCredentials",
                       Wrap("cluster credentials is empty", err))
          ELSE /\ clusterCreds' = creds
               /\ bpc' = "NewKubeConfigManager"
               /\ UNCHANGED <<bresult, bfailedAt, berr, kubeConfig>>
    /\ UNCHANGED <<prev, serviceConfig, kubeConfigEnv, hasClusterName, handlers,
                   initResult, fired, runs, bevent, kubectlConfig, store,
                   currentContext, namespaces, consoleMsgs>>
    /\ UNCHANGED <<dvars, cvars>>

\* configureK8sContext: kubectl.NewKubeConfigManager
NewKubeConfigManager ==
    /\ bpc = "NewKubeConfigManager"
    /\ bsteps' = Append(bsteps, "NewKubeConfigManager")
    /\ \E err \in CallErrors("NewKubeConfigManager") :
          IF IsError(err)
          THEN BReturn("NewKubeConfigManager", err)
          ELSE /\ bpc' = "ParseKubeConfig"
               /\ UNCHANGED <<bresult, bfailedAt, berr, clusterCreds, kubeConfig>>
    /\ UNCHANGED <<prev, serviceConfig, kubeConfigEnv, hasClusterName, handlers,
                   initResult, fired, runs, bevent, kubectlConfig,
                   store, currentContext, namespaces, consoleMsgs>>
    /\ UNCHANGED <<dvars, cvars>>

\* configureK8sContext: parse the selected blob and set the namespace of its
\* first context; a document without contexts makes Contexts[0] panic
configureK8sContextParse ==
    /\ bpc = "ParseKubeConfig"
    /\ bsteps' = Append(bsteps, "ParseKubeConfig")
    /\ LET parsed == ParseKubeConfig(SelectedKubeconfig(clusterCreds))
       IN IF IsError(parsed.err)
          THEN BReturn("ParseKubeConfig",
                       Wrap("failed parsing kube config", parsed.err))
          ELSE IF Len(parsed.config[1].Contexts) = 0
          THEN BPanic
          ELSE /\ kubeConfig' =
                     Some([parsed.config[1] EXCEPT
                        !.Contexts[1].Namespace = getK8sNamespace(serviceConfig)])
               /\ bpc' = "AddOrUpdateContext"
               /\ UNCHANGED <<bresult, bfailedAt, berr, clusterCreds>>
    /\ UNCHANGED <<prev, serviceConfig, kubeConfigEnv, hasClusterName, handlers,
                   initResult, fired, runs, bevent, kubectlConfig, store,
                   currentContext, namespaces, consoleMsgs>>
    /\ UNCHANGED <<dvars, cvars>>

\* configureK8sContext: kubeConfigManager.AddOrUpdateContext
configureK8sContextMerge ==
    /\ bpc = "AddOrUpdateContext"
    /\ bsteps' = Append(bsteps, "AddOrUpdateContext")
    /\ \E err \in CallErrors("AddOrUpdateContext") :
          IF IsError(err)
          THEN /\ BReturn("AddOrUpdateContext",
                          Wrap("failed adding/updating kube context", err))
               /\ store' = store
          ELSE /\ store' = AddOrUpdateContext(store, ClusterName, kubeConfig[1])
               /\ bpc' = "ConfigUseContext"
               /\ UNCHANGED <<bresult, bfailedAt, berr, clusterCreds, kubeConfig>>
    /\ UNCHANGED <<prev, serviceConfig, kubeConfigEnv, hasClusterName, handlers,
                   initResult, fired, runs, bevent, kubectlConfig,
                   currentContext, namespaces, consoleMsgs>>
    /\ UNCHANGED <<dvars, cvars>>

\* configureK8sContext: kubectl.ConfigUseContext
configureK8sContextUse ==
    /\ bpc = "ConfigUseContext"
    /\ bsteps' = Append(bsteps, "ConfigUseContext")
    /\ \E err \in CallErrors("ConfigUseContext") :
          IF IsError(err)
          THEN /\ BReturn("ConfigUseContext",
                          Wrap("failed setting kube context", err))
               /\ currentContext' = currentContext
          ELSE /\ currentContext' = ClusterName
               /\ bpc' = "CreateNamespace"
               /\ UNCHANGED <<bresult, bfailedAt, berr, clusterCreds, kubeConfig>>
    /\ UNCHANGED <<prev, serviceConfig, kubeConfigEnv, hasClusterName, handlers,
                   initResult, fired, runs, bevent, kubectlConfig, store,
                   namespaces, consoleMsgs>>
    /\ UNCHANGED <<dvars, cvars>>

\* mutant: the namespace is created on the server instead of rendered
ensureNamespaceDryRunNone == "none"

\* ensureNamespace: the DryRun flag given to kubectl.CreateNamespace
ensureNamespaceDryRun == "client"

\* kubectl.CreateNamespace: its errors.  A client dry run only renders the
\* manifest; without dry run the server refuses a namespace that exists
CreateNamespace(dryRun, ns, existing) ==
    IF dryRun = "none" /\ ns \in existing
    THEN {<<"AlreadyExists">>}
    ELSE CallErrors("CreateNamespace")

\* mutant: the error of CreateNamespace is dropped and the (empty) output
\* applied
ensureNamespaceRenderIgnoringError ==
    /\ bpc = "CreateNamespace"
    /\ bsteps' = Append(bsteps, "CreateNamespace")
    /\ \E err \in CreateNamespace(ensureNamespaceDryRun,
                                  getK8sNamespace(serviceConfig), namespaces) :
          /\ bfailedAt' = IF IsError(err) THEN "CreateNamespace" ELSE bfailedAt
          /\ bpc' = "ApplyWithStdIn"
          /\ UNCHANGED <<bresult, berr, clusterCreds, kubeConfig>>
    /\ UNCHANGED <<prev, serviceConfig, kubeConfigEnv, hasClusterName, handlers,
                   initResult, fired, runs, bevent, kubectlConfig, store,
                   currentContext, namespaces, consoleMsgs>>
    /\ UNCHANGED <<dvars, cvars>>

\* ensureNamespace: kubectl.CreateNamespace with DryRun client, Output yaml
ensureNamespaceRender ==
    /\ bpc = "CreateNamespace"
    /\ bsteps' = Append(bsteps, "CreateNamespace")
    /\ \E err \in CreateNamespace(ensureNamespaceDryRun,
                                  getK8sNamespace(serviceConfig), namespaces) :
          IF IsError(err)
          THEN BReturn("CreateNamespace",
                       Wrap("failed creating kube namespace", err))
          ELSE /\ bpc' = "ApplyWithStdIn"
               /\ UNCHANGED <<bresult, bfailedAt, berr, clusterCreds, kubeConfig>>
    /\ UNCHANGED <<prev, serviceConfig, kubeConfigEnv, hasClusterName, handlers,
                   initResult, fired, runs, bevent, kubectlConfig, store,
                   currentContext, namespaces, consoleMsgs>>
    /\ UNCHANGED <<dvars, cvars>>

\* ensureNamespace: kubectl.ApplyWithStdIn of the rendered namespace, then
\* setK8sContext's warning about a custom KUBECONFIG and its return
ensureNamespaceApply ==
    /\ bpc = "ApplyWithStdIn"
    /\ \E err \in CallErrors("ApplyWithStdIn") :
          IF IsError(err)
          THEN /\ BReturn("ApplyWithStdIn",
                          Wrap("failed applying kube namespace", err))
               /\ bsteps' = Append(bsteps, "ApplyWithStdIn")
               /\ UNCHANGED <<namespaces, consoleMsgs>>
          ELSE /\ namespaces' = namespaces \cup {getK8sNamespace(serviceConfig)}
               /\ IF kubeConfigEnv # "" /\ bevent = "predeploy"
                  THEN /\ consoleMsgs' = consoleMsgs + 1
                       /\ bsteps' = bsteps \o <<"ApplyWithStdIn", "Message">>
                  ELSE /\ consoleMsgs' = consoleMsgs
                       /\ bsteps' = Append(bsteps, "ApplyWithStdIn")
               /\ BReturn("", NoErr)
    /\ UNCHANGED <<prev, serviceConfig, kubeConfigEnv, hasClusterName, handlers,
                   initResult, fired, runs, bevent, kubectlConfig, store,
                   currentContext>>
    /\ UNCHANGED <<dvars, cvars>>

\* ------------------------------------------------------- resource waits
\* Deployment snapshots of the cluster
Deployments ==
    [Name : {<<"w">>, <<"w", "2">>, <<"d">>},
     Replicas : 0..MaxReplicas, AvailableReplicas : 0..MaxReplicas]

\* Service snapshots of the cluster
Services ==
    [Name : {<<"w">>, <<"s">>},
     Type : {"LoadBalancer", "ClusterIP", "NodePort"},
     ClusterIps : SeqUpTo({"10.0.0.5"}, MaxLen),
     Ports : SeqUpTo({80, 8080}, MaxLen),
     LoadBalancerIngress : SeqUpTo({"", "1.2.3.4"}, MaxLen)]

\* Ingress.Spec.Rules[i].Host: nil, a host name, or a host name that
\* net/url cannot parse
IngressHosts == {Nil, "example.com", "bad%zz"}

\* Ingress snapshots of the cluster
Ingresses ==
    [Name : {<<"w">>, <<"s">>, <<"i">>},
     Tls : SeqUpTo({"tls"}, 1),
     Rules : SeqUpTo(IngressHosts, MaxLen),
     LoadBalancerIngress : SeqUpTo({"", "5.6.7.8"}, MaxLen)]

\* errors of kubectl.WaitForResource: not found, bare and wrapped, and a
\* failure of the transport
WaitErrors ==
    {<<ErrResourceNotFound>>, <<"failed waiting for resource", ErrResourceNotFound>>,
     <<"failed waiting for resource", "transport">>}

\* kubectl.WaitForResource: a resource that the caller's predicate accepts
\* (accepted is the set of those), or an error
WaitForResource(accepted) ==
    {[err |-> NoErr, res |-> Some(r)] : r \in accepted}
    \cup {[err |-> e, res |-> None] : e \in WaitErrors}

\* mutant: surplus replicas count as ready
rolloutReadyAtLeast(d) == d.AvailableReplicas >= d.Replicas

\* waitForDeployment's ready predicate
rolloutReady(d) == d.AvailableReplicas = d.Replicas

\* waitForIngress's ready predicate
ingressReady(ing) ==
    \E i \in 1..Len(ing.LoadBalancerIngress) : ing.LoadBalancerIngress[i] # ""

\* waitForService's ready predicate
serviceReady(svc) ==
    IF svc.Type # "LoadBalancer"
    THEN TRUE
    ELSE \E i \in 1..Len(svc.LoadBalancerIngress) : svc.LoadBalancerIngress[i] # ""

\* waitForDeployment: the poller's outcomes
waitForDeploymentPoll(filter) ==
    WaitForResource({d \in Deployments :
                        StringsContains(d.Name, filter) /\ rolloutReady(d)})

\* waitForService
waitForService(filter) ==
    WaitForResource({svc \in Services :
                        StringsContains(svc.Name, filter) /\ serviceReady(svc)})

\* waitForIngress
waitForIngress(filter) ==
    WaitForResource({ing \in Ingresses :
                        StringsContains(ing.Name, filter) /\ ingressReady(ing)})

\* ------------------------------------------------------------ endpoints
\* getServiceEndpoints for a service that was found: the endpoint list, or
\* a panic (index out of range) when Spec.Ports is shorter than
\* Spec.ClusterIps
getServiceEndpoints(svc) ==
    IF svc.Type = "LoadBalancer"
    THEN [panic |-> FALSE,
          endpoints |->
            [i \in 1..Len(svc.LoadBalancerIngress) |->
               <<"http://">> \o Str(svc.LoadBalancerIngress[i])
                  \o <<",", " (Service", ",", " Type: LoadBalancer)">>]]
    ELSE IF svc.Type = "ClusterIP"
    THEN IF Len(svc.ClusterIps) > Len(svc.Ports)
         THEN [panic |-> TRUE, endpoints |-> <<>>]
         ELSE [panic |-> FALSE,
               endpoints |->
                 [i \in 1..Len(svc.ClusterIps) |->
                    <<"http://">> \o Str(svc.ClusterIps[i])
                       \o <<":", ToString(svc.Ports[i])>>
                       \o <<",", " (Service", ",", " Type: ClusterIP)">>]]
    ELSE [panic |-> FALSE, endpoints |-> <<>>]

\* the elements of a relative path without its leading slashes
RECURSIVE TrimSlashes(_)
TrimSlashes(path) ==
    IF path # <<>> /\ Head(path) = "/" THEN TrimSlashes(Tail(path)) ELSE path

\* url.JoinPath(protocol://host, path): a host that does not parse is an
\* error; the path is joined with one slash; a URL without host gets no
\* slash before its path, and none after the scheme when it has no path
JoinPath(protocol, host, path) ==
    IF host = "bad%zz"
    THEN [err |-> <<"invalid URL escape">>, url |-> <<>>]
    ELSE IF host = ""
    THEN [err |-> NoErr,
          url |-> IF TrimSlashes(path) = <<>>
                  THEN <<protocol, ":">>
                  ELSE <<protocol, "://">> \o TrimSlashes(path)]
    ELSE [err |-> NoErr,
          url |-> <<protocol, "://", host>> \o
                  (IF TrimSlashes(path) = <<>>
                   THEN <<>> ELSE <<"/">> \o TrimSlashes(path))]

\* getIngressEndpoints: the protocol of every endpoint of the ingress
ingressProtocol(ing) == IF Len(ing.Tls) = 0 THEN "http" ELSE "https"

\* getIngressEndpoints: host or IP of the i-th load balancer entry
ingressBase(ing, i) ==
    IF ing.Rules[i] = Nil THEN ing.LoadBalancerIngress[i] ELSE ing.Rules[i]

\* getIngressEndpoints' loop from entry i on, acc the endpoints so far:
\* [panic, err, endpoints], a panic (index out of range) when Spec.Rules
\* has no index i
RECURSIVE ingressLoop(_, _, _, _)
ingressLoop(ing, path, i, acc) ==
    IF i > Len(ing.LoadBalancerIngress)
    THEN [panic |-> FALSE, err |-> NoErr, endpoints |-> acc]
    ELSE IF i > Len(ing.Rules)
    THEN [panic |-> TRUE, err |-> NoErr, endpoints |-> <<>>]
    ELSE LET joined == JoinPath(ingressProtocol(ing), ingressBase(ing, i), path)
         IN IF IsError(joined.err)
            THEN [panic |-> FALSE,
                  err |-> Wrap("failed constructing service endpoints", joined.err),
                  endpoints |-> <<>>]
            ELSE ingressLoop(ing, path, i + 1,
                     Append(acc, joined.url \o
                        <<",", " (Ingress", ",", " Type: LoadBalancer)">>))

\* getIngressEndpoints for an ingress that was found
getIngressEndpoints(ing, cfg) == ingressLoop(ing, cfg.IngressRelativePath, 1, <<>>)

\* Endpoints: the service name filter
serviceNameFilter(cfg) ==
    IF cfg.ServiceName = <<>> THEN cfg.Name ELSE cfg.ServiceName

\* mutant: the ingress is looked up by the configured ingress name
ingressNameFilterByIngressName(cfg) ==
    IF cfg.IngressName = <<>> THEN cfg.Name ELSE cfg.IngressName

\* Endpoints: the ingress name filter
ingressNameFilter(cfg) ==
    IF cfg.ServiceName = <<>> THEN cfg.Name ELSE cfg.ServiceName

\* Deploy: the deployment name filter
deploymentNameFilter(cfg) ==
    IF cfg.DeploymentName = <<>> THEN cfg.Name ELSE cfg.DeploymentName

\* mutant: the ingress endpoints come first
JoinEndpointsIngressFirst(svcEps, ingEps) == ingEps \o svcEps

\* Endpoints: append(serviceEndpoints, ingressEndpoints...)
JoinEndpoints(svcEps, ingEps) == svcEps \o ingEps

\* --------------------------------------------------------------- Deploy
Call(op, arg) == [op |-> op, arg |-> arg]

\* the ops of the calls made so far
CallOps == {calls[i].op : i \in 1..Len(calls)}

\* mutant: the resource group name is not checked
validateTargetResourceAcceptsAll(rg) == NoErr

\* validateTargetResource
validateTargetResource(rg) ==
    IF rg = "" THEN <<"missing resource group name">> ELSE NoErr

\* mutant: the label is not emitted
SetProgressDropped(stream, label) == stream

\* task.SetProgress(NewServiceProgress(label))
SetProgress(stream, label) == Append(stream, label)

\* the service manager calls Deploy after the predeploy handlers returned
\* no error
DeployEnabled ==
    /\ initResult = "ok"
    /\ bpc = "idle"
    /\ bevent = "predeploy"
    /\ bresult = "ok"

\* task.SetError(err): the task function returns
SetError(err) ==
    /\ taskErr' = err
    /\ dpc' = "done"

\* Deploy's validation of its arguments and the start of the container
\* helper's deploy task
Deploy ==
    /\ DeployEnabled
    /\ dpc = "idle"
    /\ \E rg \in {"", "rg"}, pkg \in {Nil, "pkg"} :
          /\ targetRG' = rg
          /\ packageOutput' = pkg
          /\ IF IsError(validateTargetResource(rg))
             THEN /\ SetError(Wrap("validating target resource",
                                   validateTargetResource(rg)))
                  /\ UNCHANGED <<pushState, calls>>
             ELSE IF pkg = Nil
             THEN /\ SetError(<<"missing package output">>)
                  /\ UNCHANGED <<pushState, calls>>
             ELSE /\ pushState' = "running"
                  /\ calls' = Append(calls, Call("containerHelper.Deploy", <<>>))
                  /\ dpc' = "syncProgress"
                  /\ taskErr' = taskErr
    /\ UNCHANGED <<pushEvents, progress, taskResult, evars, rvars, endpointUrl, savedUrl>>
    /\ UNCHANGED <<bvars, cvars>>

\* the container helper's task reports progress, which syncProgress
\* forwards to the deploy task's progress stream
ContainerProgress ==
    /\ pushState = "running"
    /\ pushEvents < MaxProgress
    /\ pushEvents' = pushEvents + 1
    /\ progress' = Append(progress, "container progress")
    /\ UNCHANGED <<dpc, targetRG, packageOutput, pushState, calls, taskErr,
                   taskResult, evars, rvars, endpointUrl, savedUrl>>
    /\ UNCHANGED <<bvars, cvars>>

\* the container helper's task ends, with a result or with an error, and
\* its progress channel is closed
ContainerDone ==
    /\ pushState = "running"
    /\ \E outcome \in {"ok", "err"} :
          /\ pushState' = outcome
          /\ calls' = Append(calls, Call("containerDeployTask ended", <<outcome>>))
    /\ UNCHANGED <<dpc, targetRG, packageOutput, pushEvents, progress, taskErr,
                   taskResult, evars, rvars, endpointUrl, savedUrl>>
    /\ UNCHANGED <<bvars, cvars>>

\* syncProgress returns when the progress channel is closed
syncProgressReturns == pushState \in {"ok", "err"}

\* Deploy after syncProgress: kubectl.SetEnv and the progress label of the
\* manifest apply; the container task is not awaited and its error is not
\* looked at
DeployAfterPush ==
    /\ dpc = "syncProgress"
    /\ syncProgressReturns
    /\ calls' = Append(calls, Call("SetEnv", <<>>))
    /\ progress' = SetProgress(progress, "Applying k8s manifests")
    /\ dpc' = "Apply"
    /\ UNCHANGED <<targetRG, packageOutput, pushState, pushEvents, taskErr,
                   taskResult, evars, rvars, endpointUrl, savedUrl>>
    /\ UNCHANGED <<bvars, cvars>>

\* Deploy: the manifest path given to kubectl.Apply
deploymentPath(cfg) ==
    IF cfg.DeploymentPath = "" THEN "manifests" ELSE cfg.DeploymentPath

\* mutant: the deployment wait is skipped
StepAfterApplySkipsWait == "getServiceEndpoints"

\* Deploy: the step that follows a successful kubectl.Apply
StepAfterApply == "waitForDeployment"

\* Deploy: kubectl.Apply of the manifests
DeployApply ==
    /\ dpc = "Apply"
    /\ calls' = Append(calls, Call("Apply", <<deploymentPath(serviceConfig)>>))
    /\ \E err \in CallErrors("kubectl apply") :
          IF IsError(err)
          THEN /\ SetError(Wrap("failed applying kube manifests", err))
               /\ UNCHANGED progress
          ELSE /\ progress' = SetProgress(progress, "Verifying deployment")
               /\ dpc' = StepAfterApply
               /\ taskErr' = taskErr
    /\ UNCHANGED <<targetRG, packageOutput, pushState, pushEvents, taskResult,
                   evars, rvars, endpointUrl, savedUrl>>
    /\ UNCHANGED <<bvars, cvars>>

\* mutant: ResourceNotFound is not tolerated
waitErrorAlwaysFatal(err) == IsError(err)

\* Deploy: an error of waitForDeployment that is not ResourceNotFound ends
\* the task
waitErrorIsFatal(err) == IsError(err) /\ ~ErrorsIs(err, ErrResourceNotFound)

\* Deploy after waitForDeployment returned (nil, err): a fatal error ends
\* the task, ResourceNotFound goes on to the endpoints
DeployAfterWaitError(err) ==
    /\ waitErr' = err
    /\ deployment' = None
    /\ IF waitErrorIsFatal(err)
       THEN /\ SetError(err)
            /\ UNCHANGED progress
       ELSE /\ progress' = SetProgress(progress, "Fetching endpoints for AKS service")
            /\ dpc' = "getServiceEndpoints"
            /\ taskErr' = taskErr

\* waitForDeployment: the wait for a ready deployment
waitForDeployment ==
    /\ dpc = "waitForDeployment"
    /\ calls' = Append(calls, Call("WaitForResource(Deployment)",
                                   deploymentNameFilter(serviceConfig)))
    /\ \E out \in waitForDeploymentPoll(deploymentNameFilter(serviceConfig)) :
          IF IsError(out.err)
          THEN DeployAfterWaitError(out.err)
          ELSE /\ deployment' = out.res
               /\ dpc' = "RolloutStatus"
               /\ UNCHANGED <<taskErr, progress, waitErr>>
    /\ UNCHANGED <<targetRG, packageOutput, pushState, pushEvents, taskResult,
                   serviceEndpoints, serviceErr, ingressEndpoints, ingressErr,
                   endpoints, rvars, endpointUrl, savedUrl>>
    /\ UNCHANGED <<bvars, cvars>>

\* mutant: the rollout status is asked for the filter string
RolloutStatusNameIsFilter(d, filter) == filter

\* waitForDeployment: the name given to kubectl.RolloutStatus
RolloutStatusName(d, filter) == d.Name

\* waitForDeployment: kubectl.RolloutStatus of the deployment found
waitForDeploymentRollout ==
    /\ dpc = "RolloutStatus"
    /\ calls' = Append(calls,
          Call("RolloutStatus",
               RolloutStatusName(deployment[1], deploymentNameFilter(serviceConfig))))
    /\ \E err \in CallErrors("deployment rollout failed") :
          IF IsError(err)
          THEN DeployAfterWaitError(err)
          ELSE /\ progress' = SetProgress(progress, "Fetching endpoints for AKS service")
               /\ dpc' = "getServiceEndpoints"
               /\ UNCHANGED <<taskErr, deployment, waitErr>>
    /\ UNCHANGED <<targetRG, packageOutput, pushState, pushEvents, taskResult,
                   serviceEndpoints, serviceErr, ingressEndpoints, ingressErr,
                   endpoints, rvars, endpointUrl, savedUrl>>
    /\ UNCHANGED <<bvars, cvars>>

\* Endpoints: an error of the service branch that is not ResourceNotFound
\* aborts
serviceErrorIsFatal(err) == IsError(err) /\ ~ErrorsIs(err, ErrResourceNotFound)

\* mutant: ResourceNotFound is not tolerated
ingressErrorAlwaysFatal(err) == IsError(err)

\* Endpoints: an error of the ingress branch that is not ResourceNotFound
\* aborts
ingressErrorIsFatal(err) == IsError(err) /\ ~ErrorsIs(err, ErrResourceNotFound)

\* Endpoints: the service branch
EndpointsService ==
    /\ dpc = "getServiceEndpoints"
    /\ calls' = Append(calls, Call("WaitForResource(Service)",
                                   serviceNameFilter(serviceConfig)))
    /\ \E out \in waitForService(serviceNameFilter(serviceConfig)) :
          IF IsError(out.err)
          THEN /\ serviceErr' = out.err
               /\ serviceEndpoints' = <<>>
               /\ IF serviceErrorIsFatal(out.err)
                  THEN SetError(Wrap("failed retrieving service endpoints", out.err))
                  ELSE /\ dpc' = "getIngressEndpoints"
                       /\ taskErr' = taskErr
          ELSE /\ serviceErr' = NoErr
               /\ IF getServiceEndpoints(out.res[1]).panic
                  THEN /\ dpc' = "panic"
                       /\ UNCHANGED <<taskErr, serviceEndpoints>>
                  ELSE /\ serviceEndpoints' = getServiceEndpoints(out.res[1]).endpoints
                       /\ dpc' = "getIngressEndpoints"
                       /\ taskErr' = taskErr
    /\ UNCHANGED <<targetRG, packageOutput, pushState, pushEvents, progress,
                   taskResult, deployment, waitErr, ingressEndpoints,
                   ingressErr, endpoints, rvars, endpointUrl, savedUrl>>
    /\ UNCHANGED <<bvars, cvars>>

\* Endpoints after getIngressEndpoints returned (eps, err)
EndpointsAfterIngress(eps, err) ==
    /\ ingressErr' = err
    /\ ingressEndpoints' = eps
    /\ IF ingressErrorIsFatal(err)
       THEN /\ SetError(Wrap("failed retrieving ingress endpoints", err))
            /\ endpoints' = endpoints
       ELSE /\ endpoints' = Some(JoinEndpoints(serviceEndpoints, eps))
            /\ dpc' = "persist"
            /\ taskErr' = taskErr

\* Endpoints: the ingress branch and the returned list
EndpointsIngress ==
    /\ dpc = "getIngressEndpoints"
    /\ calls' = Append(calls, Call("WaitForResource(Ingress)",
                                   ingressNameFilter(serviceConfig)))
    /\ \E out \in waitForIngress(ingressNameFilter(serviceConfig)) :
          IF IsError(out.err)
          THEN EndpointsAfterIngress(<<>>, out.err)
          ELSE LET got == getIngressEndpoints(out.res[1], serviceConfig)
               IN IF got.panic
                  THEN /\ dpc' = "panic"
                       /\ UNCHANGED <<taskErr, ingressErr, ingressEndpoints,
                                      endpoints>>
                  ELSE EndpointsAfterIngress(got.endpoints, got.err)
    /\ UNCHANGED <<targetRG, packageOutput, pushState, pushEvents, progress,
                   taskResult, deployment, waitErr, serviceEndpoints,
                   serviceErr, rvars, endpointUrl, savedUrl>>
    /\ UNCHANGED <<bvars, cvars>>

\* mutant: the first endpoint is taken, not the last
EndpointUrlOfFirst(eps) == SplitFirst(eps[1])

\* Deploy: the URL stored as ENDPOINT_URL
EndpointUrlOf(eps) == SplitFirst(eps[Len(eps)])

\* Deploy: whether the endpoint URL is stored and the environment saved
ShouldPersist(eps) == Len(eps) > 0

\* Deploy: SetServiceProperty of ENDPOINT_URL and envManager.Save
DeployPersist ==
    /\ dpc = "persist"
    /\ IF ShouldPersist(endpoints[1])
       THEN /\ endpointUrl' = Some(EndpointUrlOf(endpoints[1]))
            /\ calls' = Append(calls, Call("Save", EndpointUrlOf(endpoints[1])))
            /\ \E err \in CallErrors("save") :
                  IF IsError(err)
                  THEN /\ SetError(Wrap("failed updating environment with endpoint url", err))
                       /\ savedUrl' = savedUrl
                  ELSE /\ savedUrl' = Some(EndpointUrlOf(endpoints[1]))
                       /\ dpc' = "SetResult"
                       /\ taskErr' = taskErr
       ELSE /\ dpc' = "SetResult"
            /\ UNCHANGED <<endpointUrl, calls, savedUrl, taskErr>>
    /\ UNCHANGED <<targetRG, packageOutput, pushState, pushEvents, progress,
                   taskResult, evars, rvars>>
    /\ UNCHANGED <<bvars, cvars>>

\* Deploy: task.SetResult
DeploySetResult ==
    /\ dpc = "SetResult"
    /\ taskResult' = Some([Package |-> packageOutput, Kind |-> "aks",
                           TargetResourceGroup |-> targetRG,
                           Details |-> deployment, Endpoints |-> endpoints[1]])
    /\ dpc' = "done"
    /\ UNCHANGED <<targetRG, packageOutput, pushState, pushEvents, progress,
                   calls, taskErr, evars, rvars, endpointUrl, savedUrl>>
    /\ UNCHANGED <<bvars, cvars>>

\* getServiceEndpoints after waitForService returned the Service
getServiceEndpointsCall ==
    /\ service # None
    /\ returned = None
    /\ returned' = Some([panic |-> getServiceEndpoints(service[1]).panic,
                         err |-> NoErr,
                         endpoints |-> getServiceEndpoints(service[1]).endpoints])
    /\ UNCHANGED <<service, ingress>>
    /\ UNCHANGED <<dpc, targetRG, packageOutput, pushState, pushEvents,
                   progress, calls, taskErr, taskResult, evars, endpointUrl,
                   savedUrl>>
    /\ UNCHANGED <<bvars, cvars>>

\* getIngressEndpoints after waitForIngress returned the Ingress
getIngressEndpointsCall ==
    /\ ingress # None
    /\ returned = None
    /\ returned' = Some(getIngressEndpoints(ingress[1], serviceConfig))
    /\ UNCHANGED <<service, ingress>>
    /\ UNCHANGED <<dpc, targetRG, packageOutput, pushState, pushEvents,
                   progress, calls, taskErr, taskResult, evars, endpointUrl,
                   savedUrl>>
    /\ UNCHANGED <<bvars, cvars>>

\* ------------------------------------------------------ concurrent flows
\* two services of the project, each deployed to a cluster of its own
Flows == {"web", "api"}

\* the AZURE_AKS_CLUSTER_NAME of a flow's environment
FlowCluster(f) == IF f = "web" THEN "aks1" ELSE "aks2"

\* the kubectl calls of one bootstrap-and-deploy flow that use the shared
\* kubeconfig, in the order of setK8sContext and Deploy
FlowSteps ==
    <<"AddOrUpdateContext", "ConfigUseContext", "ApplyWithStdIn", "Apply",
      "WaitForResource(Deployment)", "RolloutStatus",
      "WaitForResource(Service)", "WaitForResource(Ingress)">>

\* no flow has started
InitFlows ==
    /\ cpc = [f \in Flows |-> 1]
    /\ cstore = <<>>
    /\ ccurrent = ""
    /\ cused = [f \in Flows |-> <<>>]

\* the call of flow f returns while context is the current one: the flow
\* goes on, or ends with the error
FlowReturn(f, err, context) ==
    /\ cpc' = [cpc EXCEPT ![f] = IF IsError(err) THEN 0 ELSE cpc[f] + 1]
    /\ cused' = [cused EXCEPT ![f] =
                    Append(@, [op |-> FlowSteps[cpc[f]], context |-> context,
                               ok |-> ~IsError(err)])]

\* the flow is at the step
FlowAt(f, step) ==
    /\ cpc[f] \in 1..Len(FlowSteps)
    /\ FlowSteps[cpc[f]] = step

\* configureK8sContext of flow f: AddOrUpdateContext, an upsert that the
\* store serialises
FlowAddOrUpdateContext(f) ==
    /\ FlowAt(f, "AddOrUpdateContext")
    /\ \E err \in CallErrors("AddOrUpdateContext") :
          /\ cstore' = IF IsError(err) THEN cstore
                        ELSE AddOrUpdateContext(cstore, FlowCluster(f),
                                [src |-> 1, Contexts |-> <<[Namespace |-> f]>>])
          /\ FlowReturn(f, err, ccurrent)
    /\ UNCHANGED ccurrent
    /\ UNCHANGED <<bvars, dvars>>

\* configureK8sContext of flow f: ConfigUseContext makes the flow's cluster
\* the current context of the store
FlowConfigUseContext(f) ==
    /\ FlowAt(f, "ConfigUseContext")
    /\ \E err \in CallErrors("ConfigUseContext") :
          /\ ccurrent' = IF IsError(err) THEN ccurrent ELSE FlowCluster(f)
          /\ FlowReturn(f, err, ccurrent)
    /\ UNCHANGED cstore
    /\ UNCHANGED <<bvars, dvars>>

\* any later kubectl call of flow f (namespace apply, manifest apply, the
\* waits): it names no context and runs against the current one
FlowKubectl(f) ==
    /\ cpc[f] \in 3..Len(FlowSteps)
    /\ \E err \in CallErrors("kubectl") : FlowReturn(f, err, ccurrent)
    /\ UNCHANGED <<cstore, ccurrent>>
    /\ UNCHANGED <<bvars, dvars>>

\* ------------------------------------------------------- specification
\* the state after NewAksTarget, before Initialize
Init ==
    /\ serviceConfig \in ServiceConfigs
    /\ kubeConfigEnv \in {"", "/custom/kubeconfig"}
    /\ hasClusterName \in BOOLEAN
    /\ handlers = {}
    /\ initResult = "none"
    /\ fired = [e \in Events |-> 0]
    /\ runs = 0
    /\ bpc = "idle"
    /\ bevent = Nil
    /\ bsteps = <<>>
    /\ bresult = "none"
    /\ bfailedAt = ""
    /\ berr = NoErr
    /\ clusterCreds = <<>>
    /\ kubeConfig = None
    /\ kubectlConfig = ""
    /\ store = <<>>
    /\ currentContext = ""
    /\ namespaces = {}
    /\ consoleMsgs = 0
    /\ prev = [result |-> "none", store |-> <<>>, currentContext |-> ""]
    /\ dpc = "idle"
    /\ targetRG = ""
    /\ packageOutput = Nil
    /\ pushState = "none"
    /\ pushEvents = 0
    /\ progress = <<>>
    /\ calls = <<>>
    /\ taskErr = NoErr
    /\ taskResult = None
    /\ deployment = None
    /\ waitErr = NoErr
    /\ serviceEndpoints = <<>>
    /\ serviceErr = NoErr
    /\ ingressEndpoints = <<>>
    /\ ingressErr = NoErr
    /\ endpoints = None
    /\ endpointUrl = None
    /\ savedUrl = None
    /\ InitFlows
    /\ service = None
    /\ ingress = None
    /\ returned = None

\* the state in which the service manager calls Deploy: Initialize done,
\* the predeploy handler has run the bootstrap once, without KUBECONFIG
\* override, and returned no error (a state Spec reaches from Init)
DeployCallable ==
    /\ serviceConfig \in ServiceConfigs
    /\ kubeConfigEnv = ""
    /\ hasClusterName = TRUE
    /\ handlers = {"postprovision", "predeploy"}
    /\ initResult = "ok"
    /\ fired = [e \in Events |-> IF e = "predeploy" THEN 1 ELSE 0]
    /\ runs = 1
    /\ bpc = "idle"
    /\ bevent = "predeploy"
    /\ bsteps = <<"SetEnv", "GetTargetResource", "GetUserCredentials",
                  "NewKubeConfigManager", "ParseKubeConfig",
                  "AddOrUpdateContext", "ConfigUseContext", "CreateNamespace",
                  "ApplyWithStdIn">>
    /\ bresult = "ok"
    /\ bfailedAt = ""
    /\ berr = NoErr
    /\ clusterCreds = <<>>
    /\ kubeConfig = None
    /\ kubectlConfig = ""
    /\ store = <<[name |-> ClusterName,
                  namespace |-> getK8sNamespace(serviceConfig), src |-> 1]>>
    /\ currentContext = ClusterName
    /\ namespaces = {getK8sNamespace(serviceConfig)}
    /\ consoleMsgs = 0
    /\ prev = [result |-> "none", store |-> <<>>, currentContext |-> ""]
    /\ dpc = "idle"
    /\ targetRG = ""
    /\ packageOutput = Nil
    /\ pushState = "none"
    /\ pushEvents = 0
    /\ progress = <<>>
    /\ calls = <<>>
    /\ taskErr = NoErr
    /\ taskResult = None
    /\ deployment = None
    /\ waitErr = NoErr
    /\ serviceEndpoints = <<>>
    /\ serviceErr = NoErr
    /\ ingressEndpoints = <<>>
    /\ ingressErr = NoErr
    /\ endpoints = None
    /\ endpointUrl = None
    /\ savedUrl = None
    /\ InitFlows

\* the states in which Deploy is called
InitDeploy ==
    /\ DeployCallable
    /\ service = None
    /\ ingress = None
    /\ returned = None

\* the states in which getServiceEndpoints has its Service from
\* waitForService, or getIngressEndpoints its Ingress from waitForIngress
InitEndpoints ==
    /\ DeployCallable
    /\ returned = None
    /\ \/ /\ ingress = None
          /\ service \in {out.res :
                out \in {o \in waitForService(serviceNameFilter(serviceConfig)) :
                            ~IsError(o.err)}}
       \/ /\ service = None
          /\ ingress \in {out.res :
                out \in {o \in waitForIngress(ingressNameFilter(serviceConfig)) :
                            ~IsError(o.err)}}

\* Initialize, the lifecycle events and the steps of setK8sContext
NextBootstrap ==
    \/ Initialize
    \/ \E e \in Events : setK8sContext(e)
    \/ GetTargetResource
    \/ ensureClusterContext
    \/ GetUserCredentials
    \/ NewKubeConfigManager
    \/ configureK8sContextParse
    \/ configureK8sContextMerge
    \/ configureK8sContextUse
    \/ ensureNamespaceRender
    \/ ensureNamespaceApply

\* the steps of Deploy's task after its start
NextDeploy ==
    \/ ContainerProgress
    \/ ContainerDone
    \/ DeployAfterPush
    \/ DeployApply
    \/ waitForDeployment
    \/ waitForDeploymentRollout
    \/ EndpointsService
    \/ EndpointsIngress
    \/ DeployPersist
    \/ DeploySetResult

Next == NextBootstrap \/ Deploy \/ NextDeploy

\* the whole program
Spec == Init /\ [][Next]_vars

\* the bootstrap phase of Spec, up to and including the start of Deploy
SpecBootstrap == Init /\ [][NextBootstrap \/ Deploy]_vars

\* the Deploy phase of Spec, from the states in which Deploy is called
SpecDeploy == InitDeploy /\ [][Deploy \/ NextDeploy]_vars

\* the steps of the concurrent flows
NextFlows ==
    \E f \in Flows :
        \/ FlowAddOrUpdateContext(f)
        \/ FlowConfigUseContext(f)
        \/ FlowKubectl(f)

\* two bootstrap-and-deploy flows of one process, interleaved call by call
SpecFlows == Init /\ [][NextFlows]_vars

\* getServiceEndpoints and getIngressEndpoints on every resource their
\* waits can return
SpecEndpoints ==
    InitEndpoints /\ [][getServiceEndpointsCall \/ getIngressEndpointsCall]_vars

\* InitDeploy is a state of Spec: Spec reaches a state that satisfies it,
\* so this is no invariant of SpecBootstrap
InitDeployUnreachable == ~InitDeploy

\* ---------------------------------------------------------------- claims
\* position of the first call op in calls, 0 when there is none
CallIndex(op) ==
    IF op \in CallOps
    THEN CHOOSE i \in 1..Len(calls) :
            calls[i].op = op /\ \A j \in 1..(i - 1) : calls[j].op # op
    ELSE 0

\* how often op was called
CallCount(op) == Cardinality({i \in 1..Len(calls) : calls[i].op = op})

\* err is ResourceNotFound or wraps it
IsNotFound(err) == \E i \in DOMAIN err : err[i] = "ErrResourceNotFound"

\* a is a prefix of b
IsPrefix(a, b) == Len(a) <= Len(b) /\ SubSeq(b, 1, Len(a)) = a

\* u is the text of s before its first comma
IsTextBeforeFirstComma(u, s) ==
    /\ IsPrefix(u, s)
    /\ \A i \in 1..Len(u) : u[i] # ","
    /\ Len(u) < Len(s) => s[Len(u) + 1] = ","

\* the steps of the bootstrap state machine, in the order of the spec
BootstrapOrder ==
    <<"GetUserCredentials", "ParseKubeConfig", "AddOrUpdateContext",
      "ConfigUseContext", "CreateNamespace", "ApplyWithStdIn">>

\* the bootstrap steps among the calls of an invocation
BootstrapSteps(steps) ==
    SelectSeq(steps, LAMBDA x : \E i \in 1..Len(BootstrapOrder) : BootstrapOrder[i] = x)

\* C1 (as claimed): when the container helper's deploy task ends in error,
\* kubectl Apply is never invoked, no result is set, and the deploy task
\* ends with an error.
C1_PushFailureIsFatal ==
    pushState = "err" =>
        /\ "Apply" \notin CallOps
        /\ taskResult = None
        /\ dpc = "done" => IsError(taskErr)

\* C2: the steps of one Deploy are strictly ordered and do not overlap: the
\* container task has ended before Apply, Apply precedes the deployment
\* wait, the wait (poll, then rollout status) precedes the service lookup,
\* which precedes the ingress lookup; each happens at most once, and while
\* the container task runs Deploy does nothing else.
C2_StepsOrdered ==
    /\ \A op \in CallOps : CallCount(op) = 1
    /\ pushState = "running" => dpc = "syncProgress"
    /\ "Apply" \in CallOps =>
          /\ CallIndex("containerDeployTask ended") > 0
          /\ CallIndex("containerDeployTask ended") < CallIndex("Apply")
    /\ "WaitForResource(Deployment)" \in CallOps =>
          /\ CallIndex("Apply") > 0
          /\ CallIndex("Apply") < CallIndex("WaitForResource(Deployment)")
    /\ "RolloutStatus" \in CallOps =>
          /\ CallIndex("WaitForResource(Deployment)") > 0
          /\ CallIndex("WaitForResource(Deployment)") < CallIndex("RolloutStatus")
    /\ "WaitForResource(Service)" \in CallOps =>
          /\ CallIndex("WaitForResource(Deployment)") > 0
          /\ CallIndex("WaitForResource(Deployment)") < CallIndex("WaitForResource(Service)")
          /\ CallIndex("RolloutStatus") < CallIndex("WaitForResource(Service)")
    /\ "WaitForResource(Ingress)" \in CallOps =>
          /\ CallIndex("WaitForResource(Service)") > 0
          /\ CallIndex("WaitForResource(Service)") < CallIndex("WaitForResource(Ingress)")

\* C2 witness: a Deploy that went through push, apply, poll, rollout status
\* and both endpoint lookups
C2_Witness ==
    /\ "RolloutStatus" \in CallOps
    /\ "WaitForResource(Ingress)" \in CallOps
    /\ dpc = "done"

\* C3: with an empty resource group name or a nil package output, Deploy
\* ends with an error and has run no later step: no push, no apply, no
\* wait, no endpoint resolution, no save, no result.
C3_FailFast ==
    (dpc # "idle" /\ (targetRG = "" \/ packageOutput = Nil)) =>
        /\ dpc = "done"
        /\ IsError(taskErr)
        /\ taskResult = None
        /\ calls = <<>>
        /\ pushState = "none"
        /\ endpoints = None
        /\ savedUrl = None

\* C3 witness: Deploy was called with a resource group and no package
C3_Witness ==
    /\ dpc = "done"
    /\ targetRG = "rg"
    /\ packageOutput = Nil
    /\ taskErr = <<"missing package output">>

\* C4: a ResourceNotFound from the deployment wait lets Deploy go on to the
\* endpoints, and a result then has no Details; any other error of the
\* wait (poll or rollout status) ends Deploy with that error, before any
\* endpoint lookup or save.
C4_WaitErrorHandling ==
    /\ (IsError(waitErr) /\ IsNotFound(waitErr)) =>
          /\ dpc = "getServiceEndpoints" \/ "WaitForResource(Service)" \in CallOps
          /\ taskErr # waitErr
          /\ taskResult # None => taskResult[1].Details = None
    /\ (IsError(waitErr) /\ ~IsNotFound(waitErr)) =>
          /\ dpc = "done"
          /\ taskErr = waitErr
          /\ taskResult = None
          /\ CallOps \cap {"WaitForResource(Service)",
                           "WaitForResource(Ingress)", "Save"} = {}
          /\ savedUrl = None

\* C4 witness: the wait ended with ResourceNotFound and Deploy set a result
C4_Witness ==
    /\ IsNotFound(waitErr)
    /\ taskResult # None
    /\ Len(taskResult[1].Endpoints) > 0

\* C5: in Endpoints a ResourceNotFound of a branch gives no endpoints from
\* it and does not abort (the other branch's endpoints are returned, both
\* not found is an empty list and no error); any other error of a branch
\* aborts with an error and no endpoints, a service error before the
\* ingress is looked up.
C5_EndpointErrors ==
    /\ (IsError(serviceErr) /\ IsNotFound(serviceErr)) =>
          /\ serviceEndpoints = <<>>
          /\ dpc = "getIngressEndpoints" \/ "WaitForResource(Ingress)" \in CallOps
    /\ (IsError(ingressErr) /\ IsNotFound(ingressErr)) =>
          /\ endpoints = Some(serviceEndpoints)
          /\ dpc \in {"persist", "SetResult", "done"}
          /\ IsError(taskErr) =>
                taskErr[1] = "failed updating environment with endpoint url"
    /\ (IsNotFound(serviceErr) /\ IsNotFound(ingressErr)) =>
          /\ endpoints = Some(<<>>)
          /\ taskErr = NoErr
    /\ (IsError(serviceErr) /\ ~IsNotFound(serviceErr)) =>
          /\ dpc = "done"
          /\ taskErr = Wrap("failed retrieving service endpoints", serviceErr)
          /\ endpoints = None
          /\ taskResult = None
          /\ "WaitForResource(Ingress)" \notin CallOps
    /\ (IsError(ingressErr) /\ ~IsNotFound(ingressErr)) =>
          /\ dpc = "done"
          /\ taskErr = Wrap("failed retrieving ingress endpoints", ingressErr)
          /\ endpoints = None
          /\ taskResult = None

\* C5 witness: the ingress was not found and the service's endpoints were
\* returned
C5_Witness ==
    /\ IsNotFound(ingressErr)
    /\ serviceErr = NoErr
    /\ endpoints # None
    /\ Len(serviceEndpoints) > 0

\* C6: the list Endpoints returns is the service endpoints in their order
\* followed by the ingress endpoints in theirs; when there is an ingress
\* endpoint, the last element is an ingress endpoint.
C6_ServiceThenIngress ==
    endpoints # None =>
        /\ Len(endpoints[1]) = Len(serviceEndpoints) + Len(ingressEndpoints)
        /\ \A i \in 1..Len(serviceEndpoints) :
              endpoints[1][i] = serviceEndpoints[i]
        /\ \A i \in 1..Len(ingressEndpoints) :
              endpoints[1][Len(serviceEndpoints) + i] = ingressEndpoints[i]
        /\ Len(ingressEndpoints) > 0 =>
              \E k \in DOMAIN endpoints[1][Len(endpoints[1])] :
                 endpoints[1][Len(endpoints[1])][k] = " (Ingress"

\* C6 witness: both branches produced endpoints
C6_Witness ==
    /\ endpoints # None
    /\ Len(serviceEndpoints) > 1
    /\ Len(ingressEndpoints) > 0

\* C7: with at least one endpoint, ENDPOINT_URL is the text before the
\* first comma of the last endpoint, the environment is saved before the
\* result is set, and a failed save ends Deploy with an error and no
\* result; with no endpoint the property is not set and nothing is saved.
C7_EndpointPersisted ==
    /\ (endpoints # None /\ dpc \in {"SetResult", "done"}) =>
          IF Len(endpoints[1]) > 0
          THEN /\ endpointUrl # None
               /\ IsTextBeforeFirstComma(endpointUrl[1],
                                         endpoints[1][Len(endpoints[1])])
               /\ CallCount("Save") = 1
               /\ (dpc = "SetResult" \/ taskResult # None) => savedUrl = endpointUrl
               /\ savedUrl = None =>
                     /\ dpc = "done"
                     /\ IsError(taskErr)
                     /\ taskResult = None
          ELSE /\ endpointUrl = None
               /\ savedUrl = None
               /\ "Save" \notin CallOps
    /\ (endpoints = None \/ dpc = "persist") =>
          /\ endpointUrl = None
          /\ savedUrl = None
          /\ "Save" \notin CallOps
          /\ taskResult = None

\* C7 witness: a result was set after the URL of an ingress endpoint, whose
\* path holds a comma, was saved
C7_Witness ==
    /\ taskResult # None
    /\ savedUrl # None
    /\ Len(serviceEndpoints) > 0
    /\ Len(ingressEndpoints) > 0
    /\ serviceConfig.IngressRelativePath # <<>>

\* C8 (as claimed): when postprovision and predeploy have both fired and
\* Deploy follows, the bootstrap was executed exactly once.
C8_BootstrapRunsOnce ==
    (fired["postprovision"] > 0 /\ fired["predeploy"] > 0 /\ dpc # "idle") =>
        runs = 1

\* C8 (amended): the bootstrap is executed once per raised event: as often
\* as postprovision and predeploy were raised together, so at least twice
\* when both have fired before Deploy.
C8_BootstrapRunsPerEvent ==
    /\ runs = fired["postprovision"] + fired["predeploy"]
    /\ (fired["postprovision"] > 0 /\ fired["predeploy"] > 0 /\ dpc # "idle") =>
          runs >= 2

\* C8 witness: both events fired, Deploy started, two bootstrap runs
C8_Witness ==
    /\ fired["postprovision"] = 1
    /\ fired["predeploy"] = 1
    /\ dpc # "idle"
    /\ runs = 2

\* C9: without KUBECONFIG override the bootstrap steps of an invocation are
\* a prefix of credential fetch, parse, AddOrUpdateContext,
\* ConfigUseContext, namespace render, namespace apply (so in that order,
\* none twice); a call that fails is the last one, setK8sContext returns an
\* error; a successful invocation made all six.
C9_BootstrapOrder ==
    kubeConfigEnv = "" =>
        /\ IsPrefix(BootstrapSteps(bsteps), BootstrapOrder)
        /\ bfailedAt # "" =>
              /\ bpc = "idle"
              /\ bresult = "err"
              /\ IsError(berr)
              /\ bfailedAt # "LookupEnv" => bsteps[Len(bsteps)] = bfailedAt
        /\ bresult = "ok" => BootstrapSteps(bsteps) = BootstrapOrder

\* C9 witness: ConfigUseContext failed after the context was merged
C9_Witness ==
    /\ kubeConfigEnv = ""
    /\ bfailedAt = "ConfigUseContext"
    /\ Len(store) = 1

\* C10: with the KUBECONFIG override set, the bootstrap makes no credential
\* fetch, no kubeconfig parse, no AddOrUpdateContext and no
\* ConfigUseContext, the store and the current context stay untouched, and
\* after GetTargetResource it goes to the namespace render and apply, with
\* or without a cluster name.
C10_OverrideSkipsContext ==
    kubeConfigEnv # "" =>
        /\ IsPrefix(BootstrapSteps(bsteps), <<"CreateNamespace", "ApplyWithStdIn">>)
        /\ store = <<>>
        /\ currentContext = ""
        /\ bpc \in {"idle", "GetTargetResource", "ensureClusterContext",
                    "CreateNamespace", "ApplyWithStdIn"}
        /\ bfailedAt \in {"", "GetTargetResource", "CreateNamespace", "ApplyWithStdIn"}
        /\ bresult = "ok" =>
              BootstrapSteps(bsteps) = <<"CreateNamespace", "ApplyWithStdIn">>

\* C10 witness: the override is set, no cluster name, and the bootstrap
\* ended without error after ensuring the namespace
C10_Witness ==
    /\ kubeConfigEnv # ""
    /\ ~hasClusterName
    /\ bresult = "ok"
    /\ namespaces # {}

\* the running (or last) setK8sContext invocation made the call
InSteps(call) == \E i \in 1..Len(bsteps) : bsteps[i] = call

\* C11: without a KUBECONFIG override, a missing cluster name fails the
\* bootstrap before the credential fetch; a credential fetch that errors or
\* returns no kubeconfig fails it before any parse, merge, context
\* activation or namespace ensure; and of a non-empty list only the blob at
\* index 0 is parsed and merged.
C11_ClusterContextFailures ==
    kubeConfigEnv = "" =>
        /\ (~hasClusterName /\ bpc = "idle" /\ bresult # "none") =>
              /\ bresult = "err"
              /\ bfailedAt \in {"GetTargetResource", "LookupEnv"}
              /\ ~InSteps("GetUserCredentials")
        /\ bfailedAt = "LookupEnv" => ~hasClusterName
        /\ bfailedAt = "GetUserCredentials" =>
              /\ bresult = "err"
              /\ \A c \in {"NewKubeConfigManager", "ParseKubeConfig",
                            "AddOrUpdateContext", "ConfigUseContext",
                            "CreateNamespace", "ApplyWithStdIn"} : ~InSteps(c)
        /\ InSteps("ParseKubeConfig") => InSteps("GetUserCredentials")
        /\ bpc \in {"NewKubeConfigManager", "ParseKubeConfig"} =>
              Len(clusterCreds) > 0
        /\ kubeConfig # None => kubeConfig[1].src = 1
        /\ \A i \in 1..Len(store) : store[i].src = 1

\* C11 witness: a credential list of two blobs was fetched and the blob at
\* index 0 parsed, about to be merged
C11_Witness ==
    /\ kubeConfigEnv = ""
    /\ bpc = "AddOrUpdateContext"
    /\ Len(clusterCreds) = 2
    /\ kubeConfig # None
    /\ kubeConfig[1].src = 1

\* entries of the kubeconfig store for the context name
EntriesFor(name) == {i \in 1..Len(store) : store[i].name = name}

\* C12: the bootstrap is idempotent.  When setK8sContext runs again after a
\* run that returned no error, no error of the new run comes from the
\* namespace or the context being there already; the store never holds two
\* entries for one context name; and when the new run returns no error the
\* store holds exactly one entry for the cluster name (none under a
\* KUBECONFIG override) and the store and the current context are what the
\* first run left.
C12_BootstrapIdempotent ==
    /\ \A i, j \in 1..Len(store) : store[i].name = store[j].name => i = j
    /\ prev.result = "ok" =>
          /\ \A k \in 1..Len(berr) : berr[k] # "AlreadyExists"
          /\ (bpc = "idle" /\ bresult = "ok") =>
                /\ store = prev.store
                /\ currentContext = prev.currentContext
                /\ kubeConfigEnv = "" =>
                      /\ Cardinality(EntriesFor(ClusterName)) = 1
                      /\ currentContext = ClusterName

\* C12 witness: both handlers fired without override, each run merged the
\* cluster's context and returned no error
C12_Witness ==
    /\ kubeConfigEnv = ""
    /\ runs = 2
    /\ prev.result = "ok"
    /\ bpc = "idle"
    /\ bresult = "ok"
    /\ InSteps("AddOrUpdateContext")
    /\ InSteps("ApplyWithStdIn")

\* flow f's upsert returned no error
FlowMerged(f) ==
    \E i \in 1..Len(cused[f]) :
        cused[f][i].op = "AddOrUpdateContext" /\ cused[f][i].ok

\* the calls of a flow that apply its manifests or read its resources
FlowDeployOps ==
    {"Apply", "WaitForResource(Deployment)", "RolloutStatus",
     "WaitForResource(Service)", "WaitForResource(Ingress)"}

\* C13 (as claimed): under any interleaving of two bootstrap-and-deploy
\* flows for different clusters, no upsert is lost (every flow whose upsert
\* returned leaves its cluster's context in the store) and every manifest
\* apply and resource read of a flow runs against the context of that
\* flow's own cluster.
C13_FlowsIndependent ==
    \A f \in Flows :
        /\ FlowMerged(f) =>
              \E i \in 1..Len(cstore) : cstore[i].name = FlowCluster(f)
        /\ \A i \in 1..Len(cused[f]) :
              cused[f][i].op \in FlowDeployOps =>
                  cused[f][i].context = FlowCluster(f)

\* C13, the part that holds: no upsert is lost, and the store holds one
\* entry per cluster
C13_NoLostUpdate ==
    /\ \A f \in Flows :
          FlowMerged(f) =>
              \E i \in 1..Len(cstore) : cstore[i].name = FlowCluster(f)
    /\ \A i, j \in 1..Len(cstore) : cstore[i].name = cstore[j].name => i = j

\* C14: for every Deployment snapshot the rollout readiness predicate of
\* waitForDeployment is true exactly when Status.AvailableReplicas equals
\* Spec.Replicas; a snapshot with more available replicas than desired is
\* not ready, and the snapshot the poller hands back satisfies the equality.
C14_RolloutReadyExact ==
    /\ \A d \in Deployments :
          /\ rolloutReady(d) <=> (d.AvailableReplicas = d.Replicas)
          /\ d.AvailableReplicas > d.Replicas => ~rolloutReady(d)
    /\ deployment # None =>
          deployment[1].AvailableReplicas = deployment[1].Replicas

\* C14 witness: the poller returned a snapshot although the cluster also
\* had a matching deployment with surplus replicas
C14_Witness ==
    /\ deployment # None
    /\ "WaitForResource(Deployment)" \in CallOps
    /\ \E d \in Deployments :
          /\ StringsContains(d.Name, deploymentNameFilter(serviceConfig))
          /\ d.AvailableReplicas > d.Replicas

\* C15: waitForDeployment asks for the rollout status at most once, only
\* after the poller returned a ready snapshot, and under that snapshot's
\* exact name; after a poller error it is not asked; when it fails, its
\* error is returned as it is, without a deployment and without a retry.
C15_RolloutStatusOnce ==
    /\ CallCount("RolloutStatus") <= 1
    /\ dpc = "RolloutStatus" => (deployment # None /\ rolloutReady(deployment[1]))
    /\ (deployment # None /\ dpc # "RolloutStatus") => CallCount("RolloutStatus") = 1
    /\ "RolloutStatus" \in CallOps =>
          /\ CallIndex("WaitForResource(Deployment)") # 0
          /\ CallIndex("WaitForResource(Deployment)") < CallIndex("RolloutStatus")
          /\ CallCount("WaitForResource(Deployment)") = 1
          /\ \E d \in Deployments :
                /\ d.Name = calls[CallIndex("RolloutStatus")].arg
                /\ rolloutReady(d)
                /\ StringsContains(d.Name, deploymentNameFilter(serviceConfig))
          /\ deployment # None =>
                calls[CallIndex("RolloutStatus")].arg = deployment[1].Name
    /\ waitErr \in WaitErrors => "RolloutStatus" \notin CallOps
    /\ ("RolloutStatus" \in CallOps /\ IsError(waitErr)) =>
          /\ waitErr = <<"deployment rollout failed">>
          /\ taskErr = waitErr
          /\ deployment = None
          /\ taskResult = None

\* C15 witness: the rollout status was asked for a deployment whose name is
\* not the filter string, and succeeded
C15_Witness ==
    /\ "RolloutStatus" \in CallOps
    /\ deployment # None
    /\ deployment[1].Name # deploymentNameFilter(serviceConfig)
    /\ waitErr = NoErr

\* C16 (as claimed): for every ready Service of type LoadBalancer the
\* endpoints are as many as the Status.LoadBalancer.Ingress entries with a
\* non-empty IP, each http://<ip> of such an entry; entries with an empty
\* IP give no endpoint.
C16_LoadBalancerEndpoints ==
    (service # None /\ returned # None /\ service[1].Type = "LoadBalancer") =>
        LET lb == service[1].LoadBalancerIngress
            eps == returned[1].endpoints
            nonEmpty == {i \in 1..Len(lb) : lb[i] # ""}
        IN /\ ~returned[1].panic
           /\ Len(eps) = Cardinality(nonEmpty)
           /\ \A k \in 1..Len(eps) :
                 \E i \in nonEmpty : SplitFirst(eps[k]) = <<"http://", lb[i]>>

\* C17 (as claimed): for every Service of type ClusterIP with n cluster
\* IPs, whatever the length of Spec.Ports, getServiceEndpoints returns n
\* endpoints, the i-th http://<ClusterIPs[i]>:<Ports[i].Port> tagged
\* (Service, Type: ClusterIP); a Service of any other type than
\* LoadBalancer and ClusterIP is ready at once and has no endpoints.
C17_ClusterIpEndpoints ==
    /\ \A svc \in Services :
          svc.Type \notin {"LoadBalancer", "ClusterIP"} => serviceReady(svc)
    /\ (service # None /\ returned # None /\ service[1].Type = "ClusterIP") =>
          /\ ~returned[1].panic
          /\ Len(returned[1].endpoints) = Len(service[1].ClusterIps)
          /\ \A i \in 1..Len(service[1].ClusterIps) :
                returned[1].endpoints[i] =
                    <<"http://", service[1].ClusterIps[i], ":",
                      ToString(service[1].Ports[i]),
                      ",", " (Service", ",", " Type: ClusterIP)">>
    /\ (service # None /\ returned # None
           /\ service[1].Type \notin {"LoadBalancer", "ClusterIP"}) =>
          /\ ~returned[1].panic
          /\ returned[1].endpoints = <<>>

\* C18 (as claimed): for every ready Ingress getIngressEndpoints pairs
\* Status.LoadBalancer.Ingress[i] with Spec.Rules[i], takes the rule's host
\* when there is one and else the entry's IP, with one protocol for all
\* endpoints (https exactly when Spec.TLS is not empty); with fewer rules
\* than entries it still returns endpoints or an error and reads no rule
\* that does not exist.
C18_IngressPairing ==
    (ingress # None /\ returned # None) =>
        LET lb == ingress[1].LoadBalancerIngress
            rules == ingress[1].Rules
            protocol == IF ingress[1].Tls = <<>> THEN "http" ELSE "https"
            eps == returned[1].endpoints
        IN /\ ~returned[1].panic
           /\ ~IsError(returned[1].err) =>
                 /\ Len(eps) = Len(lb)
                 /\ \A i \in 1..Len(lb) :
                       /\ eps[i][1] = protocol
                       /\ i <= Len(rules) =>
                             LET host == IF rules[i] = Nil THEN lb[i] ELSE rules[i]
                             IN host # "" => eps[i][3] = host

\* the labels Deploy emits itself, in the order of its statements
DeployLabels ==
    <<"Applying k8s manifests", "Verifying deployment",
      "Fetching endpoints for AKS service">>

\* the progress stream without the container helper's forwarded progress
OwnLabels == SelectSeq(progress, LAMBDA l : l # "container progress")

\* the label is in the progress stream
Emitted(label) == \E i \in 1..Len(progress) : progress[i] = label

\* phases of Deploy that have started: validation, push, apply,
\* verification, endpoint resolution, persistence
PhasesStarted ==
    (IF dpc # "idle" THEN 1 ELSE 0)
    + Cardinality(CallOps \cap {"containerHelper.Deploy", "Apply",
                                "WaitForResource(Deployment)",
                                "WaitForResource(Service)", "Save"})

\* C19 (as claimed): every phase of Deploy (validation, push, apply,
\* verification, endpoint resolution, persistence) has emitted a progress
\* label of its own before it runs, so the stream holds at least one kind
\* of label per phase started.
C19_EveryPhaseLabelled ==
    PhasesStarted <= Cardinality({progress[i] : i \in 1..Len(progress)})

\* C19 (amended): Deploy emits a label of its own before three phases only:
\* "Applying k8s manifests" before kubectl apply, "Verifying deployment"
\* before the deployment wait, "Fetching endpoints for AKS service" before
\* the endpoint lookups; they reach the stream in that order, once each,
\* after all forwarded progress of the container task, and each is in the
\* stream before its phase's external call.  Validation and endpoint
\* persistence emit no label.
C19_ThreePhasesLabelled ==
    /\ IsPrefix(OwnLabels, DeployLabels)
    /\ \A i, j \in 1..Len(progress) :
          (progress[i] = "container progress" /\ progress[j] # "container progress")
              => i < j
    /\ (dpc = "Apply" \/ "Apply" \in CallOps) => Emitted("Applying k8s manifests")
    /\ (dpc = "waitForDeployment" \/ "WaitForResource(Deployment)" \in CallOps)
          => Emitted("Verifying deployment")
    /\ (dpc = "getServiceEndpoints" \/ "WaitForResource(Service)" \in CallOps)
          => Emitted("Fetching endpoints for AKS service")
    /\ "Apply" \notin CallOps => ~Emitted("Verifying deployment")
    /\ "WaitForResource(Deployment)" \notin CallOps
          => ~Emitted("Fetching endpoints for AKS service")
    /\ (dpc = "done" /\ IsError(taskErr) /\ "containerHelper.Deploy" \notin CallOps)
          => progress = <<>>
    /\ "Save" \in CallOps => OwnLabels = DeployLabels

\* C19 witness: a Deploy that forwarded container progress, emitted its
\* three labels and saved the endpoint URL
C19_Witness ==
    /\ "Save" \in CallOps
    /\ Emitted("container progress")
    /\ OwnLabels = DeployLabels
    /\ taskResult # None

\* C20: Endpoints looks the Ingress up with the same name filter as the
\* Service, the configured K8s service name or else the service config's
\* name; the configured K8s ingress name has no influence on it.
C20_IngressFilterIsServiceFilter ==
    /\ \A cfg \in ServiceConfigs :
          /\ ingressNameFilter(cfg) = serviceNameFilter(cfg)
          /\ ingressNameFilter(cfg) =
                (IF cfg.ServiceName = <<>> THEN cfg.Name ELSE cfg.ServiceName)
          /\ \A n \in {<<>>, <<"i">>, <<"other">>} :
                ingressNameFilter([cfg EXCEPT !.IngressName = n])
                    = ingressNameFilter(cfg)
    /\ "WaitForResource(Ingress)" \in CallOps =>
          /\ calls[CallIndex("WaitForResource(Ingress)")].arg
                = calls[CallIndex("WaitForResource(Service)")].arg
          /\ calls[CallIndex("WaitForResource(Ingress)")].arg
                = (IF serviceConfig.ServiceName = <<>>
                   THEN serviceConfig.Name ELSE serviceConfig.ServiceName)

\* C20 witness: with an ingress name configured that differs from the
\* service name, the ingress lookup found an Ingress and returned endpoints
C20_Witness ==
    /\ serviceConfig.IngressName # <<>>
    /\ serviceConfig.IngressName # serviceConfig.ServiceName
    /\ "WaitForResource(Ingress)" \in CallOps
    /\ Len(ingressEndpoints) > 0
====
